---------------------------- MODULE Spec2Model ----------------------------
(***************************************************************************)
(* Phrase anti-repetition engine (user_phrase_tracking_schema.sql) and the *)
(* Izipay webhook's subscription activation (webhook_handler.js).          *)
(*                                                                         *)
(* Time is counted in hours.  NOW() is the value of the clock when the     *)
(* calling transaction starts.                                             *)
(***************************************************************************)
EXTENDS Integers, FiniteSets, Sequences, TLC

\* ------------------------------------------------------------------ bounds
MaxPhrases == 2
MaxTime == 2
MaxCalls == 2
MaxHooks == 2
MaxStatCalls == 3
MaxRequests == 4
LargeExtraHours == 3
LargeChoice == 2

\* --------------------------------------------------------------- constants
\* LIMIT 1 OFFSET 50 of the reset-time prune
KeepLast == 50
\* the hourly plan of the 2025 seed: id 13, frequency_hours 1
PowerUserPlan == 13
PowerUserFrequencyHours == 1
PowerUserMaxPerDay == 13
\* max_emails_per_day counts the sends of one day
HoursPerDay == 24

\* SQL NULL in the integer columns plan_id and sent_at
NULL == -1
\* '00000000-0000-0000-0000-000000000000'
NilUUID == "nil"
\* outcomes of a call that returns no phrase
NoRow == "no_row"
UniqueViolation == "unique_violation"
NotCalled == "not_called"
\* the BOOLEAN returned by record_phrase_sent
RetTrue == "TRUE"
RetFalse == "FALSE"

\* phrases.id, in insertion order
PhraseId == <<"p1", "p2", "p3", "p4", "p5">>

Users == {"u1", "u2"}
Workers == {"w1", "w2"}
PlanArgs == {NULL, PowerUserPlan}

VARIABLES
    phrases,              \* table phrases: the set of phrase ids
    users,                \* table users: the ids of the existing rows
    user_phrase_history,  \* table user_phrase_history: a set of rows
    now,                  \* the clock
    pc,                   \* scheduler run w: its position in the loop
    wuser,                \* scheduler run w: the subscriber it is serving
    selected,             \* scheduler run w: result of get_smart_phrase_for_user
    recorded,             \* scheduler run w: result of record_phrase_sent
    outbox,               \* emails handed to the transport: [to, phrase, at, run]
    ncalls,               \* number of direct calls or counted runs started
    txpc,                 \* call w run statement by statement: the next statement
    txloc,                \* call w: its locals and its uncommitted writes
    base,                 \* the history when the first of the racing calls began
    subscriptions,        \* table subscriptions: the rows in insertion order
    payments,             \* table payments: the rows in insertion order
    hpc,                  \* webhook invocation k: its position in the handler
    hreq,                 \* webhook invocation k: the notification it processes
    huser,                \* webhook invocation k: the user row it resolved
    nhooks,               \* number of webhook invocations started
    hsaved,               \* webhook invocation k: which of its inserts succeeded
    hstatus,              \* webhook invocation k: the statusCode it answered
    total_emails_sent,    \* column users.total_emails_sent, by user
    stpc,                 \* call c of increment_user_email_stats: its position
    stloc,                \* call c: its argument, its snapshot and its new row
    rowlock,              \* the call holding the row lock of a users row
    localStorage,         \* browser: the item 'pseudosapiens_user'
    pathname,             \* browser: window.location.pathname
    currentStep,          \* browser: the step of UnsubscribePage
    response,             \* browser: the answer to the unsubscribe request of
                          \* the latest event, "none" if it sent no request
    nrequests             \* number of browser events so far

raceVars == <<txpc, txloc, base>>

hookVars == <<subscriptions, payments, hpc, hreq, huser, nhooks, hsaved, hstatus>>

statsVars == <<total_emails_sent, stpc, stloc, rowlock>>

browserVars == <<localStorage, pathname, currentStep, response, nrequests>>

vars == <<phrases, users, user_phrase_history, now, pc, wuser, selected,
          recorded, outbox, ncalls, raceVars, hookVars, statsVars, browserVars>>

\* ------------------------------------------------- table user_phrase_history
HistoryRow(u, p, status, plan, t) ==
    [user_id |-> u, phrase_id |-> p, email_status |-> status,
     plan_id |-> plan, sent_at |-> t]

\* UNIQUE(user_id, phrase_id): would inserting (u, p) into h conflict?
Conflicts(h, u, p) == \E r \in h : r.user_id = u /\ r.phrase_id = p

UserRows(h, u) == {r \in h : r.user_id = u}

\* the subquery with the extra condition AND plan_id IS NOT NULL
SentPhraseIds_WithPlan(h, u) ==
    {r.phrase_id : r \in {x \in UserRows(h, u) :
                            x.email_status = "sent" /\ x.plan_id # NULL}}

\* SELECT DISTINCT phrase_id ... WHERE user_id = u AND email_status = 'sent'
SentPhraseIds(h, u) ==
    {r.phrase_id : r \in {x \in UserRows(h, u) : x.email_status = "sent"}}

\* ------------------------------------------ get_smart_phrase_for_user(u)
total_phrases_count == Cardinality(phrases)

user_received_count(h, u) == Cardinality(UserRows(h, u))

\* the comparison of line 55 taken one row early
ResetBranch_OneEarly(h, u) == user_received_count(h, u) + 1 >= total_phrases_count

ResetBranch(h, u) == user_received_count(h, u) >= total_phrases_count

\* SELECT sent_at ... ORDER BY sent_at DESC LIMIT 1 OFFSET k: the sent_at of
\* the row at position k (0-based) of the descending order, NULL when there
\* are at most k rows.  Ties do not change the value found at position k.
OffsetSentAt(rows, k) ==
    IF Cardinality(rows) <= k THEN NULL
    ELSE CHOOSE t \in {r.sent_at : r \in rows} :
            /\ Cardinality({r \in rows : r.sent_at > t}) <= k
            /\ Cardinality({r \in rows : r.sent_at >= t}) > k

\* the DELETE with the comparison turned round
PruneHistory_Newer(h, u) ==
    LET limit == OffsetSentAt(UserRows(h, u), KeepLast)
    IN  IF limit = NULL THEN h
        ELSE {r \in h : ~(r.user_id = u /\ r.sent_at > limit)}

\* the DELETE without its user_id condition
PruneHistory_AllUsers(h, u) ==
    LET limit == OffsetSentAt(UserRows(h, u), KeepLast)
    IN  IF limit = NULL THEN h
        ELSE {r \in h : ~(r.sent_at < limit)}

\* DELETE ... WHERE user_id = u AND sent_at < (subquery); a NULL subquery
\* makes the comparison NULL and no row is deleted.
PruneHistory(h, u) ==
    LET limit == OffsetSentAt(UserRows(h, u), KeepLast)
    IN  IF limit = NULL THEN h
        ELSE {r \in h : ~(r.user_id = u /\ r.sent_at < limit)}

CycleResetRow(u, t) == HistoryRow(u, NilUUID, "cycle_reset", NULL, t)

\* the history after the IF block (lines 55-69), when the INSERT succeeds
AfterReset(h, u, t) == PruneHistory(h \cup {CycleResetRow(u, t)}, u)

\* Candidates without the NOT IN filter
Candidates_Unfiltered(h, u) == phrases

\* WHERE p.id NOT IN (SELECT DISTINCT uph.phrase_id ... 'sent')
Candidates(h, u) == {p \in phrases : p \notin SentPhraseIds(h, u)}

\* The whole call, run alone in its transaction at time t.  The result is
\* <<history after the call, outcome>>; the outcome is the phrase returned,
\* NoRow for an empty result set, UniqueViolation when the INSERT of the
\* reset row raises and the transaction rolls back.
get_smart_phrase_for_user(h, u, t) ==
    IF ResetBranch(h, u)
    THEN IF Conflicts(h, u, NilUUID)
         THEN {<<h, UniqueViolation>>}
         ELSE LET h2 == AfterReset(h, u, t)
              IN  IF Candidates(h2, u) = {} THEN {<<h2, NoRow>>}
                  ELSE {<<h2, p>> : p \in Candidates(h2, u)}
    ELSE IF Candidates(h, u) = {} THEN {<<h, NoRow>>}
         ELSE {<<h, p>> : p \in Candidates(h, u)}

\* ------------------------------------------------ record_phrase_sent(u, p, plan)
\* a plain INSERT into a table without the UNIQUE constraint
record_phrase_sent_PlainInsert(h, u, p, plan, t) ==
    IF u \notin users THEN <<h, RetFalse>>
    ELSE <<h \cup {HistoryRow(u, p, "sent", plan, t)}, RetTrue>>

\* the upsert reporting whether the row was new
record_phrase_sent_WasNew(h, u, p, plan, t) ==
    IF u \notin users THEN <<h, RetFalse>>
    ELSE <<{r \in h : ~(r.user_id = u /\ r.phrase_id = p)}
             \cup {HistoryRow(u, p, "sent", plan, t)},
           IF Conflicts(h, u, p) THEN RetFalse ELSE RetTrue>>

\* the exception handler returning TRUE
record_phrase_sent_TrueOnError(h, u, p, plan, t) ==
    IF u \notin users THEN <<h, RetTrue>>
    ELSE <<{r \in h : ~(r.user_id = u /\ r.phrase_id = p)}
             \cup {HistoryRow(u, p, "sent", plan, t)}, RetTrue>>

\* the upsert as ON CONFLICT DO NOTHING: the existing row is kept
record_phrase_sent_KeepFirst(h, u, p, plan, t) ==
    IF u \notin users THEN <<h, RetFalse>>
    ELSE IF Conflicts(h, u, p) THEN <<h, RetTrue>>
    ELSE <<h \cup {HistoryRow(u, p, "sent", plan, t)}, RetTrue>>

\* the upsert recording the row with another status of the column
record_phrase_sent_Delivered(h, u, p, plan, t) ==
    IF u \notin users THEN <<h, RetFalse>>
    ELSE <<{r \in h : ~(r.user_id = u /\ r.phrase_id = p)}
             \cup {HistoryRow(u, p, "delivered", plan, t)}, RetTrue>>

\* INSERT ... ON CONFLICT (user_id, phrase_id) DO UPDATE.  A user_id with no
\* row in users violates the foreign key; WHEN OTHERS turns it into FALSE.
record_phrase_sent(h, u, p, plan, t) ==
    IF u \notin users THEN <<h, RetFalse>>
    ELSE <<{r \in h : ~(r.user_id = u /\ r.phrase_id = p)}
             \cup {HistoryRow(u, p, "sent", plan, t)}, RetTrue>>

\* ------------------------------------------------------------ Eligibility Gate
LastSentAt(h, u) ==
    LET ts == {r.sent_at : r \in {x \in UserRows(h, u) : x.email_status = "sent"}}
    IN  IF ts = {} THEN NULL ELSE CHOOSE t \in ts : \A s \in ts : s <= t

\* the plans of the 2025 seed
SeededPlans == {0, 1, 2, 3, 4, PowerUserPlan}

\* subscription_plans.frequency_hours
frequency_hours(plan) ==
    CASE plan = 0 -> 56
      [] plan = 1 -> 24
      [] plan = 2 -> 12
      [] plan = 3 -> 8
      [] plan = 4 -> 6
      [] OTHER -> PowerUserFrequencyHours

\* subscription_plans.max_emails_per_day
max_emails_per_day(plan) ==
    CASE plan = 0 -> 3
      [] plan = 1 -> 1
      [] plan = 2 -> 2
      [] plan = 3 -> 3
      [] plan = 4 -> 4
      [] OTHER -> PowerUserMaxPerDay

DayOf(t) == t \div HoursPerDay

\* the sends recorded for u in the day of t
SentToday(h, u, t) ==
    Cardinality({r \in UserRows(h, u) :
                    r.email_status = "sent" /\ DayOf(r.sent_at) = DayOf(t)})

\* due under the plan's policy: the interval has elapsed since the last
\* send and today's sends are below the cap; always due without history
isDueForPlan(h, u, plan, t) ==
    \/ LastSentAt(h, u) = NULL
    \/ /\ LastSentAt(h, u) # NULL
       /\ t - LastSentAt(h, u) >= frequency_hours(plan)
       /\ SentToday(h, u, t) < max_emails_per_day(plan)

ActiveSubscriptions(u) ==
    {i \in DOMAIN subscriptions :
        subscriptions[i].user_id = u /\ subscriptions[i].status = "active"}

\* the plan of the subscriber's newest active subscription; a subscriber
\* of the scenarios without subscription rows is on the hourly plan
getActivePlan(u) ==
    IF ActiveSubscriptions(u) = {} THEN PowerUserPlan
    ELSE subscriptions[CHOOSE i \in ActiveSubscriptions(u) :
                          \A j \in ActiveSubscriptions(u) : j <= i].plan_id

isDue(h, u, t) == isDueForPlan(h, u, getActivePlan(u), t)

\* locals of a call before it starts
NoLocals ==
    [start |-> 0, total |-> 0, received |-> 0, ins |-> {}, del |-> {},
     result |-> NotCalled]

\* webhook invocations
Hooks == {"k1", "k2"}
NoUser == "no_user"
\* kr-hash: the HMAC-SHA256 digest of the signed string under a key; the
\* digest tells apart every two (key, string) pairs of the model
NoHash == <<>>
Hmac(key, str) == <<"sha256_hmac", key, str>>
\* IZIPAY_HMAC_TEST_KEY / IZIPAY_HMAC_PROD_KEY, and a key the sender made up
hmacKey == "hmacKey"
ForgedKey == "forgedKey"
\* kr-answer: the fields the handler reads from it
KrAnswer(email, planId) == [email |-> email, planId |-> planId]
\* krAnswer.orderStatus: the states of an order at the gateway
PaidStatus == "PAID"
OrderStatuses == {PaidStatus, "UNPAID", "RUNNING", "ABANDONED"}
\* transactions[0].uuid: the gateway gives every transaction its own uuid
NoUuid == <<>>
TransactionUuid(email, planId, orderStatus) == <<email, planId, orderStatus>>
NoRequest == [email |-> NoUser, planId |-> NULL, krHash |-> NoHash,
              orderStatus |-> PaidStatus, transactionUuid |-> NoUuid]
\* the notification of a paid order as an invocation holds it
Request(email, planId, orderStatus, krHash) ==
    [email |-> email, planId |-> planId, krHash |-> krHash,
     orderStatus |-> orderStatus,
     transactionUuid |-> TransactionUuid(email, planId, orderStatus)]
\* the row persistPaymentAndSubscription posts to payments
PaymentRow(req) ==
    [plan_id |-> req.planId, status |-> req.orderStatus,
     mercadopago_payment_id |-> req.transactionUuid]
\* statusCode of the responses
StatusOK == 200
StatusBadRequest == 400
StatusUnauthorized == 401
StatusServerError == 500
NoWrites == [payment |-> FALSE, subscription |-> FALSE]
\* calls of increment_user_email_stats
StatCalls == 1..MaxStatCalls
NoCall == 0
NoStatLocals == [email |-> NoUser, snapshot |-> NULL, newrow |-> NULL,
                 success |-> FALSE]
\* plan ids extractPlanFromOrderId can yield for the seeded plans, or null
HookPlans == {NULL, 1, PowerUserPlan}

\* ------------------------------------------------------------------- Init
\* the payments empty, no run or call begun
InitRuns ==
    /\ now = 0
    /\ pc = [w \in Workers |-> "idle"]
    /\ wuser = [w \in Workers |-> "u1"]
    /\ selected = [w \in Workers |-> NotCalled]
    /\ recorded = [w \in Workers |-> NotCalled]
    /\ outbox = {}
    /\ ncalls = 0
    /\ txpc = [w \in Workers |-> "idle"]
    /\ txloc = [w \in Workers |-> NoLocals]
    /\ base = [set |-> FALSE, h |-> {}]
    /\ payments = <<>>
    /\ hpc = [k \in Hooks |-> "idle"]
    /\ hreq = [k \in Hooks |-> NoRequest]
    /\ huser = [k \in Hooks |-> NoUser]
    /\ nhooks = 0
    /\ hsaved = [k \in Hooks |-> NoWrites]
    /\ hstatus = [k \in Hooks |-> NULL]
    /\ total_emails_sent = [u \in Users |-> 0]
    /\ stpc = [c \in StatCalls |-> "idle"]
    /\ stloc = [c \in StatCalls |-> NoStatLocals]
    /\ rowlock = [u \in Users |-> NoCall]
    /\ localStorage = NoUser
    /\ pathname = "/"
    /\ currentStep = "confirm"
    /\ response = "none"
    /\ nrequests = 0

Init ==
    /\ phrases \in {{PhraseId[i] : i \in 1..n} : n \in 0..MaxPhrases}
    /\ users \in {{"u1"}, Users}
    /\ subscriptions = <<>>
    /\ user_phrase_history = {}
    /\ InitRuns

\* ------------------------------------------------- the per-subscriber loop
Tick ==
    /\ now < MaxTime
    /\ now' = now + 1
    /\ UNCHANGED <<phrases, users, user_phrase_history, pc, wuser, selected,
                   recorded, outbox, ncalls, raceVars, hookVars, statsVars, browserVars>>

\* isDue(u): the run takes up subscriber u only when a send is due
StartRun(w, u) ==
    /\ pc[w] = "idle"
    /\ u \in users
    /\ isDue(user_phrase_history, u, now)
    /\ pc' = [pc EXCEPT ![w] = "due"]
    /\ wuser' = [wuser EXCEPT ![w] = u]
    /\ selected' = [selected EXCEPT ![w] = NotCalled]
    /\ recorded' = [recorded EXCEPT ![w] = NotCalled]
    /\ UNCHANGED <<phrases, users, user_phrase_history, now, outbox, ncalls,
                   raceVars, hookVars, statsVars, browserVars>>

\* selectNext: no phrase returned ends the run without a send
SelectNext(w) ==
    /\ pc[w] = "due"
    /\ \E res \in get_smart_phrase_for_user(user_phrase_history, wuser[w], now) :
          /\ user_phrase_history' = res[1]
          /\ selected' = [selected EXCEPT ![w] = res[2]]
          /\ pc' = [pc EXCEPT ![w] = IF res[2] \in phrases THEN "selected" ELSE "idle"]
    /\ UNCHANGED <<phrases, users, now, wuser, recorded, outbox, ncalls,
                   raceVars, hookVars, statsVars, browserVars>>

Send(w) ==
    /\ pc[w] = "selected"
    /\ outbox' = outbox \cup {[to |-> wuser[w], phrase |-> selected[w], at |-> now,
                            run |-> w]}
    /\ pc' = [pc EXCEPT ![w] = "sent"]
    /\ UNCHANGED <<phrases, users, user_phrase_history, now, wuser, selected, recorded,
                   ncalls, raceVars, hookVars, statsVars, browserVars>>

RecordSent(w) ==
    /\ pc[w] = "sent"
    /\ LET res == record_phrase_sent(user_phrase_history, wuser[w], selected[w],
                                     getActivePlan(wuser[w]), now)
       IN  /\ user_phrase_history' = res[1]
           /\ recorded' = [recorded EXCEPT ![w] = res[2]]
    /\ pc' = [pc EXCEPT ![w] = "idle"]
    /\ UNCHANGED <<phrases, users, now, wuser, selected, outbox, ncalls,
                   raceVars, hookVars, statsVars, browserVars>>

\* the scheduler run of the sequential specification
SeqRun == "w1"

\* one scheduler run at a time, every returned phrase sent and then recorded
Next ==
    \/ Tick
    \/ \E u \in Users : StartRun(SeqRun, u)
    \/ SelectNext(SeqRun)
    \/ Send(SeqRun)
    \/ RecordSent(SeqRun)

Spec == Init /\ [][Next]_vars

\* ------------------------------------------ interrupted and concurrent runs
\* StartRun, counted: at most MaxCalls runs are started
StartCountedRun(w, u) ==
    /\ ncalls < MaxCalls
    /\ ncalls' = ncalls + 1
    /\ pc[w] = "idle"
    /\ u \in users
    /\ isDue(user_phrase_history, u, now)
    /\ pc' = [pc EXCEPT ![w] = "due"]
    /\ wuser' = [wuser EXCEPT ![w] = u]
    /\ selected' = [selected EXCEPT ![w] = NotCalled]
    /\ recorded' = [recorded EXCEPT ![w] = NotCalled]
    /\ UNCHANGED <<phrases, users, user_phrase_history, now, outbox,
                   raceVars, hookVars, statsVars, browserVars>>

\* the run is interrupted after the transport accepted the email and before
\* record_phrase_sent is called
Crash(w) ==
    /\ pc[w] = "sent"
    /\ pc' = [pc EXCEPT ![w] = "idle"]
    /\ UNCHANGED <<phrases, users, user_phrase_history, now, wuser, selected, recorded,
                   outbox, ncalls, raceVars, hookVars, statsVars, browserVars>>

\* one run at a time; a run may be interrupted and the loop re-run
NextRetry ==
    \/ Tick
    \/ \E u \in Users : StartCountedRun(SeqRun, u)
    \/ SelectNext(SeqRun)
    \/ Send(SeqRun)
    \/ RecordSent(SeqRun)
    \/ Crash(SeqRun)

SpecRetry == Init /\ [][NextRetry]_vars

\* concurrent runs interleave at the boundaries of their database calls
NextConc ==
    \/ Tick
    \/ \E w \in Workers, u \in Users : StartCountedRun(w, u)
    \/ \E w \in Workers : SelectNext(w)
    \/ \E w \in Workers : Send(w)
    \/ \E w \in Workers : RecordSent(w)

SpecConc == Init /\ [][NextConc]_vars

\* ------------------------------------------- direct calls of the two functions
\* Client w calls get_smart_phrase_for_user(u) at any moment.
CallSelectNext(w, u) ==
    /\ ncalls < MaxCalls
    /\ ncalls' = ncalls + 1
    /\ \E res \in get_smart_phrase_for_user(user_phrase_history, u, now) :
          /\ user_phrase_history' = res[1]
          /\ selected' = [selected EXCEPT ![w] = res[2]]
    /\ wuser' = [wuser EXCEPT ![w] = u]
    /\ recorded' = [recorded EXCEPT ![w] = NotCalled]
    /\ UNCHANGED <<phrases, users, now, pc, outbox, raceVars, hookVars, statsVars, browserVars>>

\* Client w calls record_phrase_sent(u, p, plan) at any moment; the call is one
\* INSERT ... ON CONFLICT statement, which the database runs atomically also
\* against a concurrent call with the same key.  selected[w] keeps p.
CallRecordSent(w, u, p, plan) ==
    /\ ncalls < MaxCalls
    /\ ncalls' = ncalls + 1
    /\ LET res == record_phrase_sent(user_phrase_history, u, p, plan, now)
       IN  /\ user_phrase_history' = res[1]
           /\ recorded' = [recorded EXCEPT ![w] = res[2]]
    /\ wuser' = [wuser EXCEPT ![w] = u]
    /\ selected' = [selected EXCEPT ![w] = p]
    /\ UNCHANGED <<phrases, users, now, pc, outbox, raceVars, hookVars, statsVars, browserVars>>

NextCalls ==
    \/ Tick
    \/ \E w \in Workers, u \in Users : CallSelectNext(w, u)
    \/ \E w \in Workers, u \in Users, p \in phrases, plan \in PlanArgs :
          CallRecordSent(w, u, p, plan)

SpecCalls == Init /\ [][NextCalls]_vars

\* the calls one client makes within one instant of the clock
OneClient == "w1"

NextOneClient ==
    \/ \E u \in Users : CallSelectNext(OneClient, u)
    \/ \E u \in Users, p \in phrases, plan \in PlanArgs :
          CallRecordSent(OneClient, u, p, plan)

SpecOneClient == Init /\ [][NextOneClient]_vars

\* --------------------------------- racing calls, statement by statement
\* get_smart_phrase_for_user is VOLATILE plpgsql run under READ COMMITTED:
\* every statement reads the rows committed when it starts plus the call's
\* own uncommitted writes, and the writes become visible to others at commit.
\* The calls of this scenario all concern one subscriber.
RaceUser == "u1"

RaceVarsFrame == UNCHANGED <<phrases, users, now, pc, outbox, ncalls, hookVars, statsVars, browserVars>>

NoCallBegun == \A w \in Workers : txpc[w] = "idle"

InProgress(w) == txpc[w] \notin {"idle", "done"}

MarkBase == IF base.set THEN base ELSE [set |-> TRUE, h |-> user_phrase_history]

\* what call w reads: committed rows minus its deletes plus its insert
TxView(w) == (user_phrase_history \ txloc[w].del) \cup txloc[w].ins

\* rows recorded for the subscriber before the racing calls begin
SetupRecord(p) ==
    /\ NoCallBegun
    /\ RaceUser \in users
    /\ user_phrase_history' =
          record_phrase_sent(user_phrase_history, RaceUser, p, PowerUserPlan, now)[1]
    /\ UNCHANGED <<wuser, selected, recorded, raceVars>>
    /\ RaceVarsFrame

\* BEGIN: NOW() is fixed for the whole call
TxBegin(w) ==
    /\ txpc[w] = "idle"
    /\ RaceUser \in users
    /\ txpc' = [txpc EXCEPT ![w] = "count"]
    /\ txloc' = [txloc EXCEPT ![w] = [NoLocals EXCEPT !.start = now]]
    /\ base' = MarkBase
    /\ wuser' = [wuser EXCEPT ![w] = RaceUser]
    /\ UNCHANGED <<user_phrase_history, selected, recorded>>
    /\ RaceVarsFrame

\* lines 47-52: the two SELECT COUNT(*) (phrases does not change)
TxCount(w) ==
    /\ txpc[w] = "count"
    /\ txloc' = [txloc EXCEPT ![w].total = total_phrases_count,
                              ![w].received =
                                 user_received_count(TxView(w), wuser[w])]
    /\ txpc' = [txpc EXCEPT ![w] = "branch"]
    /\ UNCHANGED <<user_phrase_history, base, wuser, selected, recorded>>
    /\ RaceVarsFrame

\* line 55 false: no reset
TxNoReset(w) ==
    /\ txpc[w] = "branch"
    /\ txloc[w].received < txloc[w].total
    /\ txpc' = [txpc EXCEPT ![w] = "select"]
    /\ UNCHANGED <<user_phrase_history, txloc, base, wuser, selected, recorded>>
    /\ RaceVarsFrame

\* lines 57-58: INSERT of the reset row.  A committed row with the same key
\* raises unique_violation and the call aborts; an uncommitted one of another
\* call makes the INSERT wait until that call has committed.
TxInsertReset(w) ==
    /\ txpc[w] = "branch"
    /\ txloc[w].received >= txloc[w].total
    /\ \A v \in Workers \ {w} : ~(InProgress(v) /\ txloc[v].ins # {})
    /\ IF Conflicts(user_phrase_history, wuser[w], NilUUID)
       THEN /\ txpc' = [txpc EXCEPT ![w] = "done"]
            /\ selected' = [selected EXCEPT ![w] = UniqueViolation]
            /\ UNCHANGED txloc
       ELSE /\ txpc' = [txpc EXCEPT ![w] = "delete"]
            /\ txloc' = [txloc EXCEPT ![w].ins =
                                        {CycleResetRow(wuser[w], txloc[w].start)}]
            /\ UNCHANGED selected
    /\ UNCHANGED <<user_phrase_history, base, wuser, recorded>>
    /\ RaceVarsFrame

\* lines 61-68: the prune, over what the call can see
TxDelete(w) ==
    /\ txpc[w] = "delete"
    /\ LET keep == PruneHistory(TxView(w), wuser[w])
       IN  txloc' = [txloc EXCEPT ![w].del = user_phrase_history \ keep,
                                 ![w].ins = txloc[w].ins \cap keep]
    /\ txpc' = [txpc EXCEPT ![w] = "select"]
    /\ UNCHANGED <<user_phrase_history, base, wuser, selected, recorded>>
    /\ RaceVarsFrame

\* lines 72-87: the random pick and the RETURN QUERY
TxSelect(w) ==
    /\ txpc[w] = "select"
    /\ \E r \in IF Candidates(TxView(w), wuser[w]) = {} THEN {NoRow}
                ELSE Candidates(TxView(w), wuser[w]) :
          txloc' = [txloc EXCEPT ![w].result = r]
    /\ txpc' = [txpc EXCEPT ![w] = "commit"]
    /\ UNCHANGED <<user_phrase_history, base, wuser, selected, recorded>>
    /\ RaceVarsFrame

\* COMMIT: the writes become visible, the caller gets the result
TxCommit(w) ==
    /\ txpc[w] = "commit"
    /\ user_phrase_history' = TxView(w)
    /\ selected' = [selected EXCEPT ![w] = txloc[w].result]
    /\ txpc' = [txpc EXCEPT ![w] = "done"]
    /\ UNCHANGED <<txloc, base, wuser, recorded>>
    /\ RaceVarsFrame

\* record_phrase_sent racing with a call that has begun: one statement,
\* committed at once; it waits while another call holds a delete of the row
\* it upserts
RaceRecord(w, p) ==
    /\ txpc[w] = "idle"
    /\ \A v \in Workers \ {w} :
          ~(InProgress(v) /\ Conflicts(txloc[v].del, RaceUser, p))
    /\ LET res == record_phrase_sent(user_phrase_history, RaceUser, p,
                                     PowerUserPlan, now)
       IN  /\ user_phrase_history' = res[1]
           /\ recorded' = [recorded EXCEPT ![w] = res[2]]
    /\ \E v \in Workers \ {w} : txpc[v] # "idle"
    /\ txpc' = [txpc EXCEPT ![w] = "done"]
    /\ txloc' = [txloc EXCEPT ![w] = [NoLocals EXCEPT !.start = now]]
    /\ base' = MarkBase
    /\ wuser' = [wuser EXCEPT ![w] = RaceUser]
    /\ selected' = [selected EXCEPT ![w] = p]
    /\ RaceVarsFrame

NextRace ==
    \/ Tick
    \/ \E p \in phrases : SetupRecord(p)
    \/ \E w \in Workers : TxBegin(w)
    \/ \E w \in Workers : TxCount(w)
    \/ \E w \in Workers : TxNoReset(w)
    \/ \E w \in Workers : TxInsertReset(w)
    \/ \E w \in Workers : TxDelete(w)
    \/ \E w \in Workers : TxSelect(w)
    \/ \E w \in Workers : TxCommit(w)
    \/ \E w \in Workers, p \in phrases : RaceRecord(w, p)

SpecRace == Init /\ [][NextRace]_vars

\* ------------------------------------ webhook: persistPaymentAndSubscription
HookFrame ==
    UNCHANGED <<phrases, user_phrase_history, now, pc, wuser, selected, recorded,
                outbox, ncalls, raceVars, statsVars, browserVars>>

\* handler lines 126-145: a verified notification with a customer email
\* reaches persistPaymentAndSubscription with the plan of its order id
\* whatever its orderStatus
HookReceiveOrder(k, email, planId, orderStatus) ==
    /\ hpc[k] \in {"idle", "done", "rejected"}
    /\ nhooks < MaxHooks
    /\ nhooks' = nhooks + 1
    /\ hreq' = [hreq EXCEPT ![k] =
                   Request(email, planId, orderStatus,
                           Hmac(hmacKey, KrAnswer(email, planId)))]
    /\ huser' = [huser EXCEPT ![k] = NoUser]
    /\ hpc' = [hpc EXCEPT ![k] = "payment"]
    /\ hsaved' = [hsaved EXCEPT ![k] = NoWrites]
    /\ hstatus' = [hstatus EXCEPT ![k] = NULL]
    /\ UNCHANGED <<users, subscriptions, payments>>
    /\ HookFrame

\* the notification of a paid order
HookReceive(k, email, planId) == HookReceiveOrder(k, email, planId, PaidStatus)

\* handler lines 147-156: after persistPaymentAndSubscription has returned,
\* whatever its requests answered, the response is 200 'OK'
HandlerResponse(saved, planId) == StatusOK

\* lines 193-212: POST payments, its failure is only logged; without a plan
\* the function returns
HookInsertPayment(k) ==
    /\ hpc[k] = "payment"
    /\ \E ok \in BOOLEAN :
          /\ payments' = IF ok THEN Append(payments, PaymentRow(hreq[k]))
                         ELSE payments
          /\ hsaved' = [hsaved EXCEPT ![k].payment = ok]
          /\ hstatus' = [hstatus EXCEPT ![k] =
                            IF hreq[k].planId = NULL
                            THEN HandlerResponse(hsaved'[k], hreq[k].planId)
                            ELSE NULL]
    /\ hpc' = [hpc EXCEPT ![k] = IF hreq[k].planId = NULL THEN "done" ELSE "resolve"]
    /\ UNCHANGED <<users, subscriptions, hreq, huser, nhooks>>
    /\ HookFrame

\* lines 215-226: GET users by email; a failed request leaves user null
HookResolveUser(k) ==
    /\ hpc[k] = "resolve"
    /\ \E ok \in BOOLEAN :
          LET found == IF ok /\ hreq[k].email \in users THEN hreq[k].email ELSE NoUser
          IN  /\ huser' = [huser EXCEPT ![k] = found]
              /\ hpc' = [hpc EXCEPT ![k] = IF found = NoUser THEN "create" ELSE "cancel"]
    /\ UNCHANGED <<users, subscriptions, payments, hreq, nhooks, hsaved, hstatus>>
    /\ HookFrame

\* lines 228-247: POST users; users.email is UNIQUE, so the insert fails when
\* the row exists; on failure the function returns
HookCreateUser(k) ==
    /\ hpc[k] = "create"
    /\ \E ok \in BOOLEAN :
          IF ok /\ hreq[k].email \notin users
          THEN /\ users' = users \cup {hreq[k].email}
               /\ huser' = [huser EXCEPT ![k] = hreq[k].email]
               /\ hpc' = [hpc EXCEPT ![k] = "cancel"]
               /\ UNCHANGED hstatus
          ELSE /\ UNCHANGED <<users, huser>>
               /\ hpc' = [hpc EXCEPT ![k] = "done"]
               /\ hstatus' = [hstatus EXCEPT ![k] =
                                 HandlerResponse(hsaved[k], hreq[k].planId)]
    /\ UNCHANGED <<subscriptions, payments, hreq, nhooks, hsaved>>
    /\ HookFrame

\* the PATCH of lines 250-259 applied to the table
CancelActive(subs, u) ==
    [i \in DOMAIN subs |->
        IF subs[i].user_id = u /\ subs[i].status = "active"
        THEN [subs[i] EXCEPT !.status = "cancelled"]
        ELSE subs[i]]

\* lines 249-259: PATCH subscriptions; the response is not looked at
HookCancelActive(k) ==
    /\ hpc[k] = "cancel"
    /\ \E ok \in BOOLEAN :
          subscriptions' = IF ok THEN CancelActive(subscriptions, huser[k])
                           ELSE subscriptions
    /\ hpc' = [hpc EXCEPT ![k] = "insert"]
    /\ UNCHANGED <<users, payments, hreq, huser, nhooks, hsaved, hstatus>>
    /\ HookFrame

\* lines 261-283: POST subscriptions; a failure is only logged
HookInsertSubscription(k) ==
    /\ hpc[k] = "insert"
    /\ \E ok \in BOOLEAN :
          /\ subscriptions' =
                IF ok THEN Append(subscriptions,
                                  [user_id |-> huser[k], plan_id |-> hreq[k].planId,
                                   status |-> "active"])
                ELSE subscriptions
          /\ hsaved' = [hsaved EXCEPT ![k].subscription = ok]
          /\ hstatus' = [hstatus EXCEPT ![k] =
                            HandlerResponse(hsaved'[k], hreq[k].planId)]
    /\ hpc' = [hpc EXCEPT ![k] = "done"]
    /\ UNCHANGED <<users, payments, hreq, huser, nhooks>>
    /\ HookFrame

NextWebhook ==
    \/ \E k \in Hooks, email \in Users, planId \in HookPlans :
          HookReceive(k, email, planId)
    \/ \E k \in Hooks : HookInsertPayment(k)
    \/ \E k \in Hooks : HookResolveUser(k)
    \/ \E k \in Hooks : HookCreateUser(k)
    \/ \E k \in Hooks : HookCancelActive(k)
    \/ \E k \in Hooks : HookInsertSubscription(k)

SpecWebhook == Init /\ [][NextWebhook]_vars

\* ------------------------------------------ webhook: signature verification
\* the kr-hash values a request for (email, planId) arrives with: none, the
\* digest under the configured key, a digest under another key, and the
\* digest of another notification replayed with this one
KrHashes(email, planId) ==
    {NoHash, Hmac(hmacKey, KrAnswer(email, planId)),
     Hmac(ForgedKey, KrAnswer(email, planId)),
     Hmac(hmacKey, KrAnswer(email, NULL))}

\* the response 400 or 401: the invocation ends without a database request
HookReject(k, email, planId, krHash) ==
    /\ hpc[k] \in {"idle", "done", "rejected"}
    /\ nhooks < MaxHooks
    /\ nhooks' = nhooks + 1
    /\ hreq' = [hreq EXCEPT ![k] = Request(email, planId, PaidStatus, krHash)]
    /\ huser' = [huser EXCEPT ![k] = NoUser]
    /\ hpc' = [hpc EXCEPT ![k] = "rejected"]
    /\ hsaved' = [hsaved EXCEPT ![k] = NoWrites]
    /\ hstatus' = [hstatus EXCEPT ![k] =
                      IF krHash = NoHash THEN StatusBadRequest
                      ELSE StatusUnauthorized]
    /\ UNCHANGED <<users, subscriptions, payments>>
    /\ HookFrame

\* webhook_handler.js, handler lines 80-145: a missing kr-hash is answered
\* with 400, a kr-hash other than the expected digest with 401, and only
\* then persistPaymentAndSubscription is called
handler(k, email, planId, krHash) ==
    IF krHash = NoHash \/ krHash # Hmac(hmacKey, KrAnswer(email, planId))
    THEN HookReject(k, email, planId, krHash)
    ELSE HookReceive(k, email, planId)

\* the handler that reads Kr-Hash from the headers: the digest is compared
\* only if the header is there, then the payment is saved with one POST
handlerHeaderHash(k, email, planId, receivedHash) ==
    IF receivedHash # NoHash
         /\ receivedHash # Hmac(hmacKey, KrAnswer(email, planId))
    THEN HookReject(k, email, planId, receivedHash)
    ELSE /\ hpc[k] \in {"idle", "done", "rejected"}
         /\ nhooks < MaxHooks
         /\ nhooks' = nhooks + 1
         /\ hreq' = [hreq EXCEPT ![k] =
                        Request(email, planId, PaidStatus, receivedHash)]
         /\ huser' = [huser EXCEPT ![k] = NoUser]
         /\ \E ok \in BOOLEAN :
               /\ payments' = IF ok THEN Append(payments, PaymentRow(hreq'[k]))
                              ELSE payments
               /\ hsaved' = [hsaved EXCEPT ![k] = [NoWrites EXCEPT !.payment = ok]]
               /\ hstatus' = [hstatus EXCEPT ![k] =
                                 IF ok THEN StatusOK ELSE StatusServerError]
         /\ hpc' = [hpc EXCEPT ![k] = "done"]
         /\ UNCHANGED <<users, subscriptions>>
         /\ HookFrame

\* requests with any kr-hash arrive at either handler
NextHmac ==
    \/ \E k \in Hooks, email \in Users, planId \in HookPlans :
          \E krHash \in KrHashes(email, planId) : handler(k, email, planId, krHash)
    \/ \E k \in Hooks, email \in Users, planId \in HookPlans :
          \E krHash \in KrHashes(email, planId) :
             handlerHeaderHash(k, email, planId, krHash)
    \/ \E k \in Hooks : HookInsertPayment(k)
    \/ \E k \in Hooks : HookResolveUser(k)
    \/ \E k \in Hooks : HookCreateUser(k)
    \/ \E k \in Hooks : HookCancelActive(k)
    \/ \E k \in Hooks : HookInsertSubscription(k)

SpecHmac == Init /\ [][NextHmac]_vars

\* --------------------------------------------- create_payment and order ids
\* strings are sequences of characters
DigitChars == <<"0", "1", "2", "3", "4", "5", "6", "7", "8", "9">>

IsDigit(c) == \E d \in 1..10 : DigitChars[d] = c

DigitValue(c) == (CHOOSE d \in 1..10 : DigitChars[d] = c) - 1

\* `${n}` of a non-negative integer
RECURSIVE NumberToString(_)
NumberToString(n) ==
    IF n < 10 THEN <<DigitChars[n + 1]>>
    ELSE NumberToString(n \div 10) \o <<DigitChars[(n % 10) + 1]>>

\* parseInt(digits, 10)
RECURSIVE parseInt(_)
parseInt(ds) ==
    IF Len(ds) = 1 THEN DigitValue(ds[1])
    ELSE 10 * parseInt(SubSeq(ds, 1, Len(ds) - 1)) + DigitValue(ds[Len(ds)])

\* "pseudosapiens_plan_"
OrderIdPrefix ==
    <<"p", "s", "e", "u", "d", "o", "s", "a", "p", "i", "e", "n", "s", "_",
      "p", "l", "a", "n", "_">>

\* create_payment.js line 84: the keys of plans
PaymentPlans == {1, 2}

\* the template filled with the price of the plan
createOrderId_Amount(plan_id, timestamp, emailHash) ==
    OrderIdPrefix \o NumberToString(IF plan_id = 1 THEN 500 ELSE 1000) \o <<"_">>
       \o NumberToString(timestamp) \o <<"_">> \o emailHash

\* `pseudosapiens_plan_${plan_id}_${timestamp}_${emailHash}`
createOrderId(plan_id, timestamp, emailHash) ==
    OrderIdPrefix \o NumberToString(plan_id) \o <<"_">>
       \o NumberToString(timestamp) \o <<"_">> \o emailHash

\* orderId.match(/pseudosapiens_plan_(\d+)_/): the first place where the
\* prefix, a run of digits and "_" follow one another; parseInt of the run,
\* null without a match
extractPlanFromOrderId(orderId) ==
    LET n == Len(OrderIdPrefix)
        RunEnds(i) ==
            {j \in (i + n)..(Len(orderId) - 1) :
                /\ \A x \in (i + n)..j : IsDigit(orderId[x])
                /\ orderId[j + 1] = "_"}
        MatchAt(i) ==
            /\ i + n <= Len(orderId)
            /\ SubSeq(orderId, i, i + n - 1) = OrderIdPrefix
            /\ RunEnds(i) # {}
        starts == {i \in 1..Len(orderId) : MatchAt(i)}
    IN  IF starts = {} THEN NULL
        ELSE LET i == CHOOSE x \in starts : \A y \in starts : x <= y
                 j == CHOOSE x \in RunEnds(i) : TRUE
             IN  parseInt(SubSeq(orderId, i + n, j))

\* Date.now(), a run of digits in the order id, and the first 8 hex
\* characters of the md5 of the email
OrderTimestamps == {7, 1757000123}
EmailHashes == {<<"0", "a", "1", "f", "9", "9", "c", "e">>,
                <<"1", "2", "3", "4", "5", "6", "7", "8">>}

\* create_payment.js lines 84-110 and the notification Izipay sends for the
\* order: a request for a plan outside PaymentPlans is answered with 400 and
\* creates no order; the verified notification of a created order reaches
\* persistPaymentAndSubscription with the plan read from its order id
PayAndNotify(k, email, plan_id, timestamp, emailHash) ==
    /\ plan_id \in PaymentPlans
    /\ HookReceive(k, email,
                   extractPlanFromOrderId(createOrderId(plan_id, timestamp,
                                                        emailHash)))

\* plan ids a dashboard request can carry
RequestedPlans == {0, 1, 2, 3, PowerUserPlan}

\* the invocation that handles the notifications of the orders, one at a time
OrderHook == "k1"

NextOrders ==
    \/ \E email \in Users, plan_id \in RequestedPlans :
          \E timestamp \in OrderTimestamps, emailHash \in EmailHashes :
             PayAndNotify(OrderHook, email, plan_id, timestamp, emailHash)
    \/ HookInsertPayment(OrderHook)
    \/ HookResolveUser(OrderHook)
    \/ HookCreateUser(OrderHook)
    \/ HookCancelActive(OrderHook)
    \/ HookInsertSubscription(OrderHook)

\* the orders do not depend on the catalog
InitOrders ==
    /\ Init
    /\ phrases = {}

SpecOrders == InitOrders /\ [][NextOrders]_vars

\* ------------------------------------- webhook: notifications of any order
\* verified notifications of orders in any state, a notification possibly
\* delivered again, handled one after the other
NextNotify ==
    \/ \E email \in Users, planId \in HookPlans, orderStatus \in OrderStatuses :
          HookReceiveOrder(OrderHook, email, planId, orderStatus)
    \/ HookInsertPayment(OrderHook)
    \/ HookResolveUser(OrderHook)
    \/ HookCreateUser(OrderHook)
    \/ HookCancelActive(OrderHook)
    \/ HookInsertSubscription(OrderHook)

SpecNotify == Init /\ [][NextNotify]_vars

\* ------------------------------------------ increment_user_email_stats
StatFrame ==
    UNCHANGED <<phrases, users, user_phrase_history, now, pc, wuser, selected,
                recorded, outbox, ncalls, raceVars, hookVars, browserVars>>

COALESCE(v, d) == IF v = NULL THEN d ELSE v

\* the row version the SET clause of the UPDATE is evaluated on. Under READ
\* COMMITTED the statement finds the row in its snapshot, waits for the row
\* lock, and then reads the version committed last, not the one it found
UpdateRowVersion_Snapshot(committed, snapshot) == snapshot

UpdateRowVersion(committed, snapshot) == committed

\* lines 16-21 and 30-32: the UPDATE starts and looks for the row WHERE
\* email = user_email_param in its snapshot; without a row NOT FOUND raises,
\* the handler of lines 45-52 returns 'success': false
StatScan(c, user_email_param) ==
    /\ stpc[c] = "idle"
    /\ IF user_email_param \in users
       THEN /\ stpc' = [stpc EXCEPT ![c] = "scanned"]
            /\ stloc' = [stloc EXCEPT ![c] =
                            [NoStatLocals EXCEPT
                                !.email = user_email_param,
                                !.snapshot = total_emails_sent[user_email_param]]]
       ELSE /\ stpc' = [stpc EXCEPT ![c] = "done"]
            /\ stloc' = [stloc EXCEPT ![c] =
                            [NoStatLocals EXCEPT !.email = user_email_param]]
    /\ UNCHANGED <<total_emails_sent, rowlock>>
    /\ StatFrame

\* lines 16-28: the UPDATE takes the row lock, waiting while another call
\* holds it, and computes total_emails_sent = COALESCE(total_emails_sent, 0) + 1
StatUpdate(c) ==
    /\ stpc[c] = "scanned"
    /\ rowlock[stloc[c].email] = NoCall
    /\ rowlock' = [rowlock EXCEPT ![stloc[c].email] = c]
    /\ stloc' = [stloc EXCEPT ![c].newrow =
                    COALESCE(UpdateRowVersion(total_emails_sent[stloc[c].email],
                                              stloc[c].snapshot), 0) + 1]
    /\ stpc' = [stpc EXCEPT ![c] = "updated"]
    /\ UNCHANGED total_emails_sent
    /\ StatFrame

\* lines 35-42: the function returns 'success': true and the call commits:
\* the new row version becomes visible and the row lock is released
StatCommit(c) ==
    /\ stpc[c] = "updated"
    /\ total_emails_sent' =
          [total_emails_sent EXCEPT ![stloc[c].email] = stloc[c].newrow]
    /\ rowlock' = [rowlock EXCEPT ![stloc[c].email] = NoCall]
    /\ stloc' = [stloc EXCEPT ![c].success = TRUE]
    /\ stpc' = [stpc EXCEPT ![c] = "done"]
    /\ StatFrame

increment_user_email_stats(c, user_email_param) ==
    \/ StatScan(c, user_email_param)
    \/ StatUpdate(c)
    \/ StatCommit(c)

NextStats ==
    \E c \in StatCalls, email \in Users : increment_user_email_stats(c, email)

SpecStats == Init /\ [][NextStats]_vars

\* ------------------------------------------------- the pages in the browser
BrowserFrame ==
    UNCHANGED <<phrases, users, user_phrase_history, now, pc, wuser, selected,
                recorded, outbox, ncalls, raceVars, hookVars, statsVars>>

\* every event of the browser is counted
BrowserEvent ==
    /\ nrequests < MaxRequests
    /\ nrequests' = nrequests + 1

\* GoogleSignIn: when the server answers success the user data is stored
\* under 'pseudosapiens_user' and the dashboard is opened
SignIn(email, ok) ==
    /\ BrowserEvent
    /\ pathname = "/"
    /\ IF ok
       THEN /\ localStorage' = email
            /\ pathname' = "/dashboard"
       ELSE UNCHANGED <<localStorage, pathname>>
    /\ response' = "none"
    /\ UNCHANGED currentStep
    /\ BrowserFrame

\* LandingPage lines 5-25, on a visit of "/": a stored session with an email
\* redirects to the dashboard
LandingPage ==
    /\ BrowserEvent
    /\ pathname' = IF localStorage # NoUser THEN "/dashboard" ELSE "/"
    /\ response' = "none"
    /\ UNCHANGED <<localStorage, currentStep>>
    /\ BrowserFrame

\* Dashboard, handleLogout
handleLogout ==
    /\ BrowserEvent
    /\ pathname = "/dashboard"
    /\ localStorage' = NoUser
    /\ pathname' = "/"
    /\ response' = "none"
    /\ UNCHANGED currentStep
    /\ BrowserFrame

\* Dashboard, handleUnsubscribe: on response.ok the unsubscribe page is
\* opened with the email in its address; otherwise an error is shown
DashboardUnsubscribe(ok) ==
    /\ BrowserEvent
    /\ pathname = "/dashboard"
    /\ localStorage # NoUser
    /\ IF ok
       THEN /\ response' = "ok"
            /\ pathname' = "/unsubscribe"
            /\ currentStep' = "confirm"
       ELSE /\ response' = "error"
            /\ UNCHANGED <<pathname, currentStep>>
    /\ UNCHANGED localStorage
    /\ BrowserFrame

\* the unsubscribe link of an email is opened
OpenUnsubscribePage ==
    /\ BrowserEvent
    /\ pathname' = "/unsubscribe"
    /\ currentStep' = "confirm"
    /\ response' = "none"
    /\ UNCHANGED localStorage
    /\ BrowserFrame

\* UnsubscribePage, handleUnsubscribe lines 31-66 with a valid email in the
\* field: on response.ok the session is removed and the step is "success",
\* otherwise the step is "error"
PageUnsubscribe(ok) ==
    /\ BrowserEvent
    /\ pathname = "/unsubscribe"
    /\ currentStep \in {"confirm", "error"}
    /\ IF ok
       THEN /\ response' = "ok"
            /\ localStorage' = NoUser
            /\ currentStep' = "success"
       ELSE /\ response' = "error"
            /\ currentStep' = "error"
            /\ UNCHANGED localStorage
    /\ UNCHANGED pathname
    /\ BrowserFrame

NextBrowser ==
    \/ \E email \in Users, ok \in BOOLEAN : SignIn(email, ok)
    \/ LandingPage
    \/ handleLogout
    \/ \E ok \in BOOLEAN : DashboardUnsubscribe(ok)
    \/ OpenUnsubscribePage
    \/ \E ok \in BOOLEAN : PageUnsubscribe(ok)

SpecBrowser == Init /\ [][NextBrowser]_vars

\* ------------------------------- a catalog larger than the retained history
\* one subscriber on one of the seeded plans, a catalog of KeepLast + 2
\* phrases, the scheduler run every hour; a second user has received one
\* phrase before
LargeCatalogSize == KeepLast + 2

LargePhraseId(i) == "p" \o ToString(i)

LargePhrases == {LargePhraseId(i) : i \in 1..LargeCatalogSize}

PhraseIndex(p) == CHOOSE i \in 1..LargeCatalogSize : LargePhraseId(i) = p

\* the days the hourly plan takes to send the catalog once, and some hours
LargeHours ==
    HoursPerDay * (LargeCatalogSize \div max_emails_per_day(PowerUserPlan))
      + LargeExtraHours

\* the row of the second user
OtherUserRow == HistoryRow("u2", LargePhraseId(1), "sent", PowerUserPlan, 0)

InitLarge ==
    /\ phrases = LargePhrases
    /\ users = Users
    /\ subscriptions \in {<<[user_id |-> "u1", plan_id |-> plan, status |-> "active"]>> :
                             plan \in SeededPlans}
    /\ user_phrase_history = {OtherUserRow}
    /\ InitRuns

\* the clock advances between runs: before the subscriber's first send (the
\* subscription starts at any hour of the first day), when no send is due,
\* and after a run that ended without a phrase
TickLarge ==
    /\ now < LargeHours
    /\ pc[SeqRun] = "idle"
    /\ \/ UserRows(user_phrase_history, "u1") = {} /\ now < HoursPerDay - 1
       \/ ~isDue(user_phrase_history, "u1", now)
       \/ selected[SeqRun] \in {NoRow, UniqueViolation}
    /\ now' = now + 1
    /\ UNCHANGED <<phrases, users, user_phrase_history, pc, wuser, selected,
                   recorded, outbox, ncalls, raceVars, hookVars, statsVars, browserVars>>

\* ORDER BY RANDOM() LIMIT 1: while more than LargeChoice phrases are
\* candidates the scenario follows the draw of the first of them in
\* insertion order; with LargeChoice or fewer every draw is followed.
SelectNextLarge(w) ==
    /\ SelectNext(w)
    /\ LET c == Candidates(user_phrase_history', wuser[w])
       IN  \/ Cardinality(c) <= LargeChoice
           \/ /\ selected'[w] \in c
              /\ \A q \in c : PhraseIndex(selected'[w]) <= PhraseIndex(q)

NextLarge ==
    \/ TickLarge
    \/ StartRun(SeqRun, "u1")
    \/ SelectNextLarge(SeqRun)
    \/ Send(SeqRun)
    \/ RecordSent(SeqRun)

SpecLarge == InitLarge /\ [][NextLarge]_vars

\* ------------------------------------------------------------------ claims
HasResetRow(h, u) == \E r \in UserRows(h, u) : r.email_status = "cycle_reset"

AllSent(h, u) == phrases # {} /\ phrases \subseteq SentPhraseIds(h, u)

\* C1: in a sequential run where every returned phrase is sent and then
\* recorded, the phrase a run holds after get_smart_phrase_for_user has no
\* 'sent' row for its subscriber, and two emails carrying the same phrase to
\* the same subscriber are separated by a cycle reset.
C1_NoRepeatWithinCycle ==
    /\ \A w \in Workers :
          pc[w] \in {"selected", "sent"} =>
             selected[w] \notin SentPhraseIds(user_phrase_history, wuser[w])
    /\ \A e1 \in outbox, e2 \in outbox :
          (e1.to = e2.to /\ e1.phrase = e2.phrase /\ e1.at < e2.at) =>
             \E r \in UserRows(user_phrase_history, e1.to) :
                /\ r.email_status = "cycle_reset"
                /\ e1.at <= r.sent_at /\ r.sent_at <= e2.at

\* a phrase was selected for a subscriber who already has 'sent' rows
C1_Witness ==
    \E w \in Workers :
       /\ pc[w] = "selected"
       /\ SentPhraseIds(user_phrase_history, wuser[w]) # {}
       /\ \E e \in outbox : e.to = wuser[w]

\* C2: a call made when the subscriber has a 'sent' row for every phrase of
\* a non-empty catalog records the cycle-reset row and returns a phrase of
\* the catalog.
C2_CycleResetReturnsItem ==
    [][\A w \in Workers :
          (SelectNext(w) /\ AllSent(user_phrase_history, wuser[w])) =>
             /\ HasResetRow(user_phrase_history', wuser[w])
             /\ selected'[w] \in phrases]_vars

\* C3: with a non-empty catalog every call returns a phrase of the catalog.
C3_AlwaysReturnsItem ==
    phrases # {} => \A w \in Workers : selected[w] \in phrases \cup {NotCalled}

\* C4: the history holds at most one row for each (user_id, phrase_id).
C4_OneRowPerPair ==
    \A r1 \in user_phrase_history, r2 \in user_phrase_history :
       (r1.user_id = r2.user_id /\ r1.phrase_id = r2.phrase_id) => r1 = r2

\* two clients have recorded the same pair, the second at a later hour
C4_Witness ==
    /\ recorded["w1"] = RetTrue /\ recorded["w2"] = RetTrue
    /\ wuser["w1"] = wuser["w2"] /\ selected["w1"] = selected["w2"]
    /\ now > 0
    /\ \E r \in user_phrase_history :
          /\ r.user_id = wuser["w1"] /\ r.phrase_id = selected["w1"]
          /\ r.sent_at = now

SameWindow(e1, e2) ==
    /\ e1.to = e2.to
    /\ e1.at - e2.at < PowerUserFrequencyHours
    /\ e2.at - e1.at < PowerUserFrequencyHours

\* C6: when a run is interrupted between the send and record_phrase_sent and
\* the loop is re-run, the subscriber does not receive two different phrases
\* in one eligibility window.
C6_RetrySendsOneContent ==
    \A e1 \in outbox, e2 \in outbox : SameWindow(e1, e2) => e1.phrase = e2.phrase

\* C7: two scheduler runs serving the same subscriber concurrently never
\* produce two emails to that subscriber in one eligibility window.
C7_OneEmailPerWindow ==
    \A e1 \in outbox, e2 \in outbox : SameWindow(e1, e2) => e1 = e2

RaceDone(w) == txpc[w] = "done"

RaceIsRecord(w) == RaceDone(w) /\ recorded[w] # NotCalled

RaceIsSelect(w) == RaceDone(w) /\ recorded[w] = NotCalled

\* the histories call w can leave when it runs alone on history h
SerialStep(w, h) ==
    IF RaceIsRecord(w)
    THEN {record_phrase_sent(h, RaceUser, selected[w], PowerUserPlan,
                             txloc[w].start)[1]}
    ELSE {res[1] : res \in get_smart_phrase_for_user(h, RaceUser, txloc[w].start)}

\* the histories the two finished calls can leave in one of the serial orders
SerialHistories ==
    UNION {UNION {SerialStep(o[2], h1) : h1 \in SerialStep(o[1], base.h)} :
             o \in {x \in Workers \X Workers : x[1] # x[2]}}

\* the call took the reset branch and its INSERT went through
RacePerformedReset(w) ==
    /\ RaceIsSelect(w)
    /\ txloc[w].received >= txloc[w].total
    /\ selected[w] # UniqueViolation

\* the two cases of C8, both calls finished
RaceCase ==
    /\ \A w \in Workers : RaceDone(w)
    /\ \/ /\ \A w \in Workers : RaceIsSelect(w)
          /\ phrases \subseteq SentPhraseIds(base.h, RaceUser)
       \/ \E w \in Workers, v \in Workers :
             /\ RaceIsSelect(w) /\ txloc[w].received >= txloc[w].total
             /\ RaceIsRecord(v)

RaceSerializable == RaceCase => user_phrase_history \in SerialHistories

RaceOneReset ==
    RaceCase => Cardinality({w \in Workers : RacePerformedReset(w)}) <= 1

RaceNoFailure ==
    RaceCase => \A w \in Workers :
                   selected[w] # UniqueViolation /\ recorded[w] # RetFalse

\* C8: two get_smart_phrase_for_user calls for an exhausted subscriber, or
\* one in the reset branch and a record_phrase_sent, run concurrently: the
\* history they leave is one a serial order of the same calls leaves, at
\* most one of them performed the reset, and neither call failed.
C8_AtomicCycleReset == RaceSerializable /\ RaceOneReset /\ RaceNoFailure

\* C9: every user has at most one subscription with status 'active'.
C9_OneActiveSubscription ==
    \A u \in Users : Cardinality(ActiveSubscriptions(u)) <= 1

\* C10: with an empty catalog every call ends with an empty result.
C10_EmptyCatalogNoContent ==
    phrases = {} => \A w \in Workers : selected[w] \in {NotCalled, NoRow}

\* a call of get_smart_phrase_for_user by run w that enters the IF block
TakesResetBranch(w) ==
    SelectNext(w) /\ ResetBranch(user_phrase_history, wuser[w])

\* ... and whose INSERT of the reset row succeeds
PerformsReset(w) ==
    TakesResetBranch(w) /\ ~Conflicts(user_phrase_history, wuser[w], NilUUID)

\* C11: the reset branch is entered only when every phrase of the catalog
\* has a 'sent' row for the subscriber (the reset rows are not counted).
C11_ResetOnlyWhenAllSent ==
    [][\A w \in Workers :
          TakesResetBranch(w) =>
              phrases \subseteq SentPhraseIds(user_phrase_history, wuser[w])]_vars

\* C12: when exactly one phrase has no 'sent' row for the subscriber, the
\* call returns that phrase, also after an earlier reset.
C12_LastUnsentIsReturned ==
    [][\A w \in Workers :
          (SelectNext(w)
             /\ Cardinality(Candidates(user_phrase_history, wuser[w])) = 1)
          => selected'[w] \in Candidates(user_phrase_history, wuser[w])]_vars

\* C13: after a call performed the reset, every phrase of the catalog is a
\* candidate for the subscriber again.
C13_AllCandidatesAfterReset ==
    [][\A w \in Workers :
          PerformsReset(w) =>
              Candidates(user_phrase_history', wuser[w]) = phrases]_vars

\* the rows of u in h are the n most recent of the rows of u in g
MostRecentOf(h, g, u, n) ==
    /\ UserRows(h, u) \subseteq UserRows(g, u)
    /\ Cardinality(UserRows(h, u)) <= n
    /\ \A r \in UserRows(h, u), x \in UserRows(g, u) \ UserRows(h, u) :
          x.sent_at <= r.sent_at

\* C14: right after a call performed the reset the subscriber has at most
\* KeepLast rows, the most recent ones by sent_at.
C14_RetentionBound ==
    [][\A w \in Workers :
          PerformsReset(w) =>
              MostRecentOf(user_phrase_history',
                           user_phrase_history
                             \cup {CycleResetRow(wuser[w], now)},
                           wuser[w], KeepLast)]_vars

\* the rows of h for the pair (u, p)
PairRows(h, u, p) == {r \in h : r.user_id = u /\ r.phrase_id = p}

\* a call of record_phrase_sent repeating the arguments of an earlier one:
\* the pair's row is there, 'sent', with the same plan
RepeatsRecord(w, u, p, plan) ==
    /\ CallRecordSent(w, u, p, plan)
    /\ \E r \in PairRows(user_phrase_history, u, p) :
          r.email_status = "sent" /\ r.plan_id = plan

\* C15: a second record_phrase_sent with the same arguments leaves the
\* history as the first call left it, the row's sent_at included.
C15_RepeatLeavesHistory ==
    [][\A w \in Workers, u \in users, p \in phrases, plan \in PlanArgs :
          RepeatsRecord(w, u, p, plan) =>
              user_phrase_history' = user_phrase_history]_vars

\* C15 amended: the repeated call leaves every other row alone and keeps
\* one row for the pair with the same status and plan, whose sent_at is the
\* time of the repeated call; the subscriber's last-sent time moves to it.
C15_RepeatMovesSentAt ==
    [][\A w \in Workers, u \in users, p \in phrases, plan \in PlanArgs :
          RepeatsRecord(w, u, p, plan) =>
              /\ user_phrase_history' \ PairRows(user_phrase_history', u, p)
                   = user_phrase_history \ PairRows(user_phrase_history, u, p)
              /\ Cardinality(PairRows(user_phrase_history', u, p)) = 1
              /\ \A r \in PairRows(user_phrase_history', u, p) :
                    /\ r.email_status = "sent"
                    /\ r.plan_id = plan
                    /\ r.sent_at = now
              /\ LastSentAt(user_phrase_history', u) = now]_vars

\* two calls recorded the same pair, the later one after the clock moved
C15_Witness ==
    /\ ncalls = 2
    /\ now > 0
    /\ \A w \in Workers : recorded[w] = RetTrue
    /\ wuser["w1"] = wuser["w2"]
    /\ selected["w1"] = selected["w2"]
    /\ \E r \in PairRows(user_phrase_history, wuser["w1"], selected["w1"]) :
          r.sent_at = now

\* the hours at which C16 looks at isDue after a send recorded at hour t
HoursAfter(t, plan) == t..(t + frequency_hours(plan) + HoursPerDay)

SentInWindow(h, u, t) ==
    Cardinality({r \in UserRows(h, u) :
                    /\ r.email_status = "sent"
                    /\ r.sent_at > t - HoursPerDay
                    /\ r.sent_at <= t})

C18_AnyUnsentCanBeReturned ==
    \A w \in Workers :
       pc[w] = "due" =>
          \A p \in Candidates(user_phrase_history, wuser[w]) :
             \E res \in get_smart_phrase_for_user(user_phrase_history,
                                                  wuser[w], now) :
                res[2] = p

\* the request carried the digest of its kr-answer under the configured key
Authentic(req) == req.krHash = Hmac(hmacKey, KrAnswer(req.email, req.planId))

\* C19: a step that writes users, subscriptions or payments belongs to an
\* invocation whose request carried the HMAC-SHA256 of its payload under the
\* configured key; every other request is rejected.
C19_WritesOnlyWhenSigned ==
    [][/\ (users' # users \/ subscriptions' # subscriptions \/ payments' # payments)
             => \E k \in Hooks : hpc'[k] # hpc[k] /\ Authentic(hreq'[k])
       /\ \A k \in Hooks :
             (hreq'[k] # hreq[k] /\ ~Authentic(hreq'[k])) => hpc'[k] = "rejected"]_vars

\* the number of phrases with a 'sent' row for u
SeenCount(h, u) == Cardinality(SentPhraseIds(h, u))

\* C20: a call of get_smart_phrase_for_user for a subscriber whose seen
\* count is below the size of the catalog leaves user_phrase_history as it
\* was.
C20_ReadOnlyBelowCatalogSize ==
    [][\A w \in Workers :
          (SelectNext(w)
             /\ SeenCount(user_phrase_history, wuser[w]) < total_phrases_count)
          => user_phrase_history' = user_phrase_history]_vars

\* a call ended for a subscriber who has rows, fewer phrases seen than the
\* catalog holds
C20_Witness ==
    \E w \in Workers :
       /\ selected[w] # NotCalled
       /\ pc[w] \in {"selected", "idle"}
       /\ UserRows(user_phrase_history, wuser[w]) # {}
       /\ SeenCount(user_phrase_history, wuser[w]) < total_phrases_count
       /\ recorded[w] = NotCalled

\* the rows of the users other than u
OtherRows(h, u) == {r \in h : r.user_id # u}

\* what a call for u can do to u's rows and return
OwnOutcomes(h, u, t) ==
    {<<UserRows(res[1], u), res[2]>> : res \in get_smart_phrase_for_user(h, u, t)}

\* C21: get_smart_phrase_for_user and record_phrase_sent for a subscriber
\* leave the rows of every other subscriber as they were, and what the
\* selection can return is what it can return from the subscriber's own
\* rows alone.
C21_SubscriberIsolation ==
    [][\A w \in Workers :
          /\ (SelectNext(w) \/ RecordSent(w)) =>
                OtherRows(user_phrase_history', wuser[w])
                   = OtherRows(user_phrase_history, wuser[w])
          /\ SelectNext(w) =>
                OwnOutcomes(user_phrase_history, wuser[w], now)
                   = OwnOutcomes(UserRows(user_phrase_history, wuser[w]),
                                 wuser[w], now)]_vars

\* the reset-time prune has deleted rows of u1 while u2 has a row
C21_Witness ==
    /\ OtherUserRow \in user_phrase_history
    /\ HasResetRow(user_phrase_history, "u1")
    /\ LargePhraseId(1) \in Candidates(user_phrase_history, "u1")
    /\ selected[SeqRun] \in phrases

\* h with the plan_id of row r0 set to plan
WithPlanId(h, r0, plan) == (h \ {r0}) \cup {[r0 EXCEPT !.plan_id = plan]}

\* the phrases or failures a call for u can end with
Results(h, u, t) == {res[2] : res \in get_smart_phrase_for_user(h, u, t)}

\* C22: changing the plan_id of a row of the history changes neither the
\* branch get_smart_phrase_for_user takes nor what it can return.
C22_PlanIdNotRead ==
    \A u \in users, r0 \in user_phrase_history, plan \in PlanArgs \cup SeededPlans :
       LET g == WithPlanId(user_phrase_history, r0, plan)
       IN  /\ ResetBranch(g, u) = ResetBranch(user_phrase_history, u)
           /\ Results(g, u, now) = Results(user_phrase_history, u, now)

\* a call took the reset branch on a history whose row carries a plan
C22_Witness ==
    \E r \in user_phrase_history, w \in Workers :
       /\ r.email_status = "sent" /\ r.plan_id = PowerUserPlan
       /\ wuser[w] = r.user_id
       /\ selected[w] = NoRow
       /\ HasResetRow(user_phrase_history, r.user_id)

\* the time of u's last cycle reset, NULL before the first
LastResetAt(h, u) ==
    LET ts == {r.sent_at : r \in {x \in UserRows(h, u) :
                                     x.email_status = "cycle_reset"}}
    IN  IF ts = {} THEN NULL ELSE CHOOSE t \in ts : \A x \in ts : x <= t

\* the email is out and its record_phrase_sent is still to come
AwaitsRecord(e) ==
    \E w \in Workers :
       pc[w] = "sent" /\ wuser[w] = e.to /\ selected[w] = e.phrase

ForeignKeyViolation == "foreign_key_violation"
ErrorOutcomes == {UniqueViolation, ForeignKeyViolation}

\* the calls that fail: record_phrase_sent for a user_id without a users
\* row, get_smart_phrase_for_user when the INSERT of the reset row raises
RecordFails(w, u, p, plan) == CallRecordSent(w, u, p, plan) /\ u \notin users

SelectFails(w, u) ==
    /\ CallSelectNext(w, u)
    /\ ResetBranch(user_phrase_history, u)
    /\ Conflicts(user_phrase_history, u, NilUUID)

SuccessfulCalls(u) ==
    {c \in StatCalls : stpc[c] = "done" /\ stloc[c].success /\ stloc[c].email = u}

\* C26: the send counter of every user has grown by exactly the number of
\* successful calls of increment_user_email_stats for that user, whatever the
\* interleaving of concurrent calls: no increment is lost
C26_NoLostIncrement ==
    \A u \in Users : total_emails_sent[u] = Cardinality(SuccessfulCalls(u))

\* two calls for one user that both found the row before either committed
\* have both succeeded
C26_Witness ==
    \E c, d \in StatCalls :
       /\ c # d
       /\ c \in SuccessfulCalls("u1") /\ d \in SuccessfulCalls("u1")
       /\ stloc[c].snapshot = 0 /\ stloc[d].snapshot = 0

\* invocation k is between its first and its last database request
Persisting(k) == hpc[k] \in {"payment", "resolve", "create", "cancel", "insert"}

\* C27: every step of an invocation that handles the notification of an order
\* that is not paid leaves the subscriptions as they are; only the
\* notification of a paid order inserts an active subscription
C27_SubscriptionOnlyWhenPaid ==
    [][\A k \in Hooks :
          (Persisting(k) /\ hpc'[k] # hpc[k] /\ hreq[k].orderStatus # PaidStatus)
             => subscriptions' = subscriptions]_vars

\* the payment rows of one transaction
PaymentsOf(uuid) ==
    {i \in DOMAIN payments : payments[i].mercadopago_payment_id = uuid}

\* C28: however often a notification is delivered, the payments hold one row
\* for its transaction
C28_OnePaymentPerTransaction ==
    \A i \in DOMAIN payments :
       Cardinality(PaymentsOf(payments[i].mercadopago_payment_id)) = 1

\* C29: an invocation that has answered 200 'OK' to a verified notification
\* of an order with a plan has inserted the payment and the active
\* subscription
C29_OkOnlyWhenSaved ==
    \A k \in Hooks :
       (hpc[k] = "done" /\ hstatus[k] = StatusOK /\ hreq[k].planId # NULL)
          => hsaved[k].payment /\ hsaved[k].subscription

\* C30: an unsubscribe request the server answers with success, sent from
\* the dashboard or from the unsubscribe page, removes the stored session
\* 'pseudosapiens_user'; a request that fails keeps it
C30_SessionRemovedOnUnsubscribe ==
    [][/\ response' = "ok" => localStorage' = NoUser
       /\ response' = "error" => localStorage' = localStorage]_vars

TypeOK ==
    /\ phrases \subseteq LargePhrases
    /\ users \subseteq Users
    /\ now \in 0..LargeHours
    /\ hstatus \in [Hooks -> {NULL, StatusOK, StatusBadRequest, StatusUnauthorized,
                               StatusServerError}]
    /\ hsaved \in [Hooks -> [payment : BOOLEAN, subscription : BOOLEAN]]
    /\ total_emails_sent \in [Users -> 0..MaxStatCalls]
    /\ rowlock \in [Users -> StatCalls \cup {NoCall}]
    /\ localStorage \in Users \cup {NoUser}
    /\ response \in {"none", "ok", "error"}
    /\ pathname \in {"/", "/dashboard", "/unsubscribe"}
    /\ currentStep \in {"confirm", "processing", "success", "error"}
=============================================================================
